---------------------------- MODULE Spec2Model ----------------------------
(* A model of the QGIS plugin "Select Matching Features":                  *)
(* core/selection_manager.py over an in-memory vector layer.               *)
(* Text is modelled as a sequence of one-character strings, so that        *)
(* quoting, escaping and formatting are computed character by character.   *)
EXTENDS Integers, Sequences, FiniteSets, TLC

(***************************************************************************)
(* Bounds of the model                                                     *)
(***************************************************************************)
\* number of features of the layer (feature ids 1..NumFeatures)
NumFeatures == 2
\* how many host call sites may raise during one operation
MaxFaults == 1

(***************************************************************************)
(* Text helpers (Python str semantics)                                     *)
(***************************************************************************)
Digit(d) == CASE d = 0 -> "0" [] d = 1 -> "1" [] d = 2 -> "2" [] d = 3 -> "3"
              [] d = 4 -> "4" [] d = 5 -> "5" [] d = 6 -> "6" [] d = 7 -> "7"
              [] d = 8 -> "8" [] d = 9 -> "9"

\* str(n) of a non-negative int: its decimal digits
RECURSIVE IntToStr(_)
IntToStr(n) == IF n < 10 THEN <<Digit(n)>>
               ELSE IntToStr(n \div 10) \o <<Digit(n % 10)>>

\* value.replace("'", "''")
RECURSIVE EscapeQuotes(_)
EscapeQuotes(s) ==
    IF s = <<>> THEN <<>>
    ELSE (IF Head(s) = "'" THEN <<"'", "'">> ELSE <<Head(s)>>)
         \o EscapeQuotes(Tail(s))

\* f"'{value}'"
Quoted(s) == <<"'">> \o s \o <<"'">>

\* ','.join(items)
RECURSIVE JoinComma(_)
JoinComma(items) ==
    IF items = <<>> THEN <<>>
    ELSE IF Len(items) = 1 THEN items[1]
    ELSE items[1] \o <<",">> \o JoinComma(Tail(items))

(***************************************************************************)
(* Attribute values of the layer                                           *)
(***************************************************************************)
PyNone   == [t |-> "none"]                    \* Python None
QNull    == [t |-> "qnull"]                   \* a QVariant whose isNull() is true
IntVal(n) == [t |-> "int", v |-> n]
StrVal(s) == [t |-> "str", v |-> s]

\* the primary-key values a feature may carry in this model
PkDomain == {PyNone, QNull, IntVal(12), StrVal(<<"o", "'", "k">>)}

Features == 1..NumFeatures

\* name of the primary-key field: layer.fields()[pk_indexes[0]].name()
PkFieldName == <<"p", "k">>

\* pk_value is None or (hasattr(pk_value, 'isNull') and pk_value.isNull())
IsNullValue(v) == v.t = "none" \/ v.t = "qnull"

\* isinstance(value, str)
IsStr(v) == v.t = "str"

\* str(value), as map(str, pk_values) computes it
PyStr(v) == IF v.t = "int" THEN IntToStr(v.v) ELSE v.v


(***************************************************************************)
(* State                                                                   *)
(***************************************************************************)
VARIABLES
    pk,            \* layer: feature id -> primary-key attribute value
    hasPK,         \* layer: primaryKeyAttributes() is non-empty
    editable,      \* layer: isEditable()
    subset,        \* layer: subsetString(), text
    selection,     \* layer: selectedFeatureIds(), a set of feature ids
    op,            \* the last operation run ("init" before any)
    layerArg,      \* whether the last operation was given a layer (not None)
    ret,           \* what the last operation returned, or that it raised
    calls,         \* the host call sites the last operation reached, in order
    faulted,       \* the host call sites that raised during the last operation
    preSubset,     \* subsetString() when the last operation started
    preSelection   \* the selection when the last operation started

\* HighlightManager (core/highlight_manager.py)
VARIABLES
    highlights,    \* self.highlights: name -> overlay (its index in overlays)
    overlays,      \* every QgsHighlight created so far: [name, shown]
    live,          \* the names added and not removed since
    hmOp,          \* the last HighlightManager method called
    hmName,        \* its name argument
    hmRet,         \* what it returned
    preHighlights, \* self.highlights when it was called
    preOverlays    \* the overlays when it was called

\* SettingsManager (utils/settings_manager.py)
VARIABLES
    store,         \* QSettings: key -> stored value, for the keys present
    stOp,          \* the last SettingsManager method called
    stArg,         \* its argument
    preStore       \* the store when it was called

\* ExpressionBuilder and OperatorManager
VARIABLES
    ebField,       \* field_name
    ebOperator,    \* operator
    ebValue,       \* value
    ebResult,      \* what build_expression returned or raised
    ebLookup       \* what the OperatorManager lookups returned

\* SelectMatchingFeaturesDockWidget
VARIABLES
    grpAdvancedCollapsed,  \* grpAdvanced.isCollapsed()
    radioOp                \* the operator radio that is checked, "" if none is

smVars == <<pk, hasPK, editable, subset, selection, op, layerArg, ret, calls,
            faulted, preSubset, preSelection>>

hmVars == <<highlights, overlays, live, hmOp, hmName, hmRet, preHighlights,
            preOverlays>>

stVars == <<store, stOp, stArg, preStore>>

ebVars == <<ebField, ebOperator, ebValue, ebResult, ebLookup>>

dwVars == <<grpAdvancedCollapsed, radioOp>>

vars == <<smVars, hmVars, stVars, ebVars, dwVars>>

\* a function with no argument: an empty dict, an empty QSettings
Empty == [x \in {} |-> 0]

\* no HighlightManager in use
HMIdle ==
    /\ highlights = Empty /\ overlays = <<>> /\ live = {}
    /\ hmOp = "init" /\ hmName = "" /\ hmRet = "None"
    /\ preHighlights = Empty /\ preOverlays = <<>>

\* no SettingsManager in use
STIdle == store = Empty /\ stOp = "init" /\ stArg = "" /\ preStore = Empty

\* no dock widget in use
DWIdle == grpAdvancedCollapsed = TRUE /\ radioOp = "="

\* build_expression not called yet
NotBuilt == [kind |-> "none", exc |-> "", expr |-> <<>>, display |-> <<>>]

\* the OperatorManager not asked yet
NotLooked == [done |-> FALSE, compatible |-> FALSE, null_sql |-> "",
              valid |-> FALSE, name |-> ""]

\* no expression being built
EBIdle ==
    /\ ebField = <<>> /\ ebOperator = "" /\ ebValue = [t |-> "none"]
    /\ ebResult = NotBuilt /\ ebLookup = NotLooked

(***************************************************************************)
(* The host layer (QgsVectorLayer), as the in-memory double the            *)
(* selection manager runs against                                          *)
(***************************************************************************)
\* the literal by which a subset string names an attribute value
SqlLiteral(v) == IF v.t = "str" THEN Quoted(EscapeQuotes(v.v)) ELSE IntToStr(v.v)

\* the comma-separated items of an IN list; commas inside quotes do not split
RECURSIVE SplitItems(_, _, _)
SplitItems(s, cur, inq) ==
    IF s = <<>> THEN <<cur>>
    ELSE IF Head(s) = "," /\ ~inq
         THEN <<cur>> \o SplitItems(Tail(s), <<>>, FALSE)
         ELSE SplitItems(Tail(s), Append(cur, Head(s)),
                         IF Head(s) = "'" THEN ~inq ELSE inq)

InPrefix == <<"\"">> \o PkFieldName \o <<"\"", " ", "I", "N", " ", "(">>

\* the items of a subset string of the form "pk" IN (...); none otherwise
InItems(s) ==
    IF Len(s) > Len(InPrefix) /\ SubSeq(s, 1, Len(InPrefix)) = InPrefix
       /\ s[Len(s)] = ")"
    THEN LET items == SplitItems(SubSeq(s, Len(InPrefix) + 1, Len(s) - 1),
                                 <<>>, FALSE)
         IN {items[i] : i \in 1..Len(items)}
    ELSE {}

\* layer.getFeatures(): the ids of the features visible under subset string s
VisibleIds(s, tbl) ==
    IF s = <<>> THEN Features
    ELSE {f \in Features : ~IsNullValue(tbl[f]) /\ SqlLiteral(tbl[f]) \in InItems(s)}

\* a set of feature ids as the list the host enumerates, ascending
RECURSIVE IdList(_)
IdList(S) == IF S = {} THEN <<>>
             ELSE LET m == CHOOSE x \in S : \A y \in S : x <= y
                  IN <<m>> \o IdList(S \ {m})

\* the orders in which the host may enumerate the features of S
Orders(S) == {o \in [1..Cardinality(S) -> S] : \A i, j \in DOMAIN o : o[i] = o[j] => i = j}

(***************************************************************************)
(* Results                                                                 *)
(***************************************************************************)
\* return success, count, message
Tuple(s, c, m) == [kind |-> "tuple", success |-> s, count |-> c, msg |-> m]
\* return True / return False
Bool(b) == [kind |-> "bool", success |-> b, count |-> 0, msg |-> ""]
\* an exception leaves the operation
Raised == [kind |-> "raise", success |-> FALSE, count |-> 0, msg |-> "<e>"]
NoResult == [kind |-> "none", success |-> FALSE, count |-> 0, msg |-> ""]

\* what a run of an operation leaves: its result, the layer, the call trace
Outcome(r, sub, sel, cs) == [ret |-> r, subset |-> sub, selection |-> sel, calls |-> cs]

\* the outcome of a try body: exc is "" when the body returned normally
Body(exc, r, sub, sel, cs) ==
    [exc |-> exc, ret |-> r, subset |-> sub, selection |-> sel, calls |-> cs]

(***************************************************************************)
(* SelectionManager.apply_filter_to_selection                              *)
(***************************************************************************)
\* the host call sites of apply_filter_to_selection, by source line
ApplySites == {"isEditable@175", "selectedFeatures@41", "primaryKeyAttributes@46",
               "fields@52", "feature[]@58", "setSubsetString@81", "logInfo@83",
               "logError@91", "logError@95"}

\* has_edit_session as its docstring words it: true when no session is active
has_edit_session_negated(isEditable) == ~isEditable

\* SelectionManager.has_edit_session(layer)
has_edit_session(isEditable) == isEditable

\* lines 56-64: the values kept from the selected features, in encounter order
RECURSIVE NonNullValues(_)
NonNullValues(vals) ==
    IF vals = <<>> THEN <<>>
    ELSE (IF IsNullValue(Head(vals)) THEN <<>> ELSE <<Head(vals)>>)
         \o NonNullValues(Tail(vals))

\* line 73 on a list that starts with a str: value.replace raises on a non-str
ValueListRaises(pk_values) ==
    IsStr(pk_values[1]) /\ \E i \in DOMAIN pk_values : ~IsStr(pk_values[i])

\* lines 70-77: the text of the IN list
ValueList(pk_values) ==
    IF IsStr(pk_values[1])
    THEN JoinComma([i \in DOMAIN pk_values |-> Quoted(EscapeQuotes(pk_values[i].v))])
    ELSE JoinComma([i \in DOMAIN pk_values |-> PyStr(pk_values[i])])

\* line 80: f'"{pk_field_name}" IN ({value_list})'
FilterString(pk_values) ==
    <<"\"">> \o PkFieldName \o <<"\"", " ", "I", "N", " ", "(">>
    \o ValueList(pk_values) \o <<")">>

\* lines 51-87, the try body; feats is the list selectedFeatures() returned,
\* pre the call trace so far
ApplyTryBody(feats, faults, pre) ==
    LET c1 == Append(pre, "fields@52")
        c2 == Append(c1, "feature[]@58")
        pk_values == NonNullValues([i \in DOMAIN feats |-> pk[feats[i]]])
        c3 == Append(c2, "setSubsetString@81")
        c4 == Append(c3, "logInfo@83")
    IN  IF "fields@52" \in faults
        THEN Body("IndexError", NoResult, subset, selection, c1)
        ELSE IF "feature[]@58" \in faults
        THEN Body("Exception", NoResult, subset, selection, c2)
        ELSE IF pk_values = <<>>
        THEN Body("", Tuple(FALSE, 0, "No valid primary key values found in selected features"),
                  subset, selection, c2)
        ELSE IF ValueListRaises(pk_values)
        THEN Body("Exception", NoResult, subset, selection, c2)
        ELSE IF "setSubsetString@81" \in faults
        THEN Body("Exception", NoResult, subset, selection, c3)
        ELSE IF "logInfo@83" \in faults
        THEN Body("Exception", NoResult, FilterString(pk_values), selection, c4)
        ELSE Body("", Tuple(TRUE, Len(pk_values), ""),
                  FilterString(pk_values), selection, c4)

\* lines 89-96, the two except clauses around the try body
ApplyExcept(b, faults) ==
    IF b.exc = ""
    THEN Outcome(b.ret, b.subset, b.selection, b.calls)
    ELSE IF b.exc = "IndexError"
    THEN IF "logError@91" \in faults
         THEN Outcome(Raised, b.subset, b.selection, Append(b.calls, "logError@91"))
         ELSE Outcome(Tuple(FALSE, 0, "Primary key field not found: <e>"),
                      b.subset, b.selection, Append(b.calls, "logError@91"))
    ELSE IF "logError@95" \in faults
         THEN Outcome(Raised, b.subset, b.selection, Append(b.calls, "logError@95"))
         ELSE Outcome(Tuple(FALSE, 0, "Failed to apply filter: <e>"),
                      b.subset, b.selection, Append(b.calls, "logError@95"))

\* one check of lines 38-48: the host call made, whether its answer ends the
\* operation, and the message returned if it does
Check(site, failed, msg) == [site |-> site, failed |-> failed, msg |-> msg]

\* the same checks with the selection looked at before the edit session
ApplyChecksSelectionFirst(order) ==
    << Check("selectedFeatures@41", order = <<>>, "No features selected"),
       Check("isEditable@175", has_edit_session(editable),
             "Filter cannot be applied: Layer has an active edit session"),
       Check("primaryKeyAttributes@46", ~hasPK, "Layer has no primary key") >>

\* the same checks without the edit-session check
ApplyChecksNoEditCheck(order) ==
    << Check("selectedFeatures@41", order = <<>>, "No features selected"),
       Check("primaryKeyAttributes@46", ~hasPK, "Layer has no primary key") >>

\* lines 38-48: the checks made on the layer before the try block, in order
ApplyChecks(order) ==
    << Check("isEditable@175", has_edit_session(editable),
             "Filter cannot be applied: Layer has an active edit session"),
       Check("selectedFeatures@41", order = <<>>, "No features selected"),
       Check("primaryKeyAttributes@46", ~hasPK, "Layer has no primary key") >>

\* runs the checks in order; each is a host call that may raise (outside any
\* try block, so the exception leaves the operation) or end the operation
RECURSIVE RunChecks(_, _, _)
RunChecks(checks, faults, pre) ==
    IF checks = <<>> THEN [stop |-> FALSE, ret |-> NoResult, calls |-> pre]
    ELSE LET c == Head(checks)
             cs == Append(pre, c.site)
         IN  IF c.site \in faults THEN [stop |-> TRUE, ret |-> Raised, calls |-> cs]
             ELSE IF c.failed
             THEN [stop |-> TRUE, ret |-> Tuple(FALSE, 0, c.msg), calls |-> cs]
             ELSE RunChecks(Tail(checks), faults, cs)

\* SelectionManager.apply_filter_to_selection(layer); order is the order in
\* which selectedFeatures() lists the selection
apply_filter_to_selection(present, order, faults) ==
    IF ~present
    THEN Outcome(Tuple(FALSE, 0, "No layer provided"), subset, selection, <<>>)
    ELSE LET g == RunChecks(ApplyChecks(order), faults, <<>>)
         IN  IF g.stop
             THEN Outcome(g.ret, subset, selection, g.calls)
             ELSE ApplyExcept(ApplyTryBody(order, faults, g.calls), faults)

(***************************************************************************)
(* SelectionManager.clear_filter, clear_selection, select_all_in_filter,   *)
(* has_active_filter                                                       *)
(***************************************************************************)
ClearFilterSites == {"setSubsetString@113", "name@114", "logInfo@114", "logError@117"}

\* lines 112-115, the try body of clear_filter
ClearFilterTryBody(faults) ==
    IF "setSubsetString@113" \in faults
    THEN Body("Exception", NoResult, subset, selection, <<"setSubsetString@113">>)
    ELSE IF "name@114" \in faults
    THEN Body("Exception", NoResult, <<>>, selection,
              <<"setSubsetString@113", "name@114">>)
    ELSE IF "logInfo@114" \in faults
    THEN Body("Exception", NoResult, <<>>, selection,
              <<"setSubsetString@113", "name@114", "logInfo@114">>)
    ELSE Body("", Bool(TRUE), <<>>, selection,
              <<"setSubsetString@113", "name@114", "logInfo@114">>)

\* clear_filter treating "no filter present" as an error
clear_filter_requires_filter(present, faults) ==
    IF ~present \/ subset = <<>>
    THEN Outcome(Bool(FALSE), subset, selection, <<>>)
    ELSE LET b == ClearFilterTryBody(faults)
         IN  IF b.exc = ""
             THEN Outcome(b.ret, b.subset, b.selection, b.calls)
             ELSE IF "logError@117" \in faults
             THEN Outcome(Raised, b.subset, b.selection, Append(b.calls, "logError@117"))
             ELSE Outcome(Bool(FALSE), b.subset, b.selection,
                          Append(b.calls, "logError@117"))

\* SelectionManager.clear_filter(layer)
clear_filter(present, faults) ==
    IF ~present
    THEN Outcome(Bool(FALSE), subset, selection, <<>>)
    ELSE LET b == ClearFilterTryBody(faults)
         IN  IF b.exc = ""
             THEN Outcome(b.ret, b.subset, b.selection, b.calls)
             ELSE IF "logError@117" \in faults
             THEN Outcome(Raised, b.subset, b.selection, Append(b.calls, "logError@117"))
             ELSE Outcome(Bool(FALSE), b.subset, b.selection,
                          Append(b.calls, "logError@117"))

ClearSelectionSites == {"removeSelection@135", "logError@138"}

\* SelectionManager.clear_selection(layer)
clear_selection(present, faults) ==
    IF ~present
    THEN Outcome(Bool(FALSE), subset, selection, <<>>)
    ELSE IF "removeSelection@135" \notin faults
    THEN Outcome(Bool(TRUE), subset, {}, <<"removeSelection@135">>)
    ELSE IF "logError@138" \in faults
    THEN Outcome(Raised, subset, selection, <<"removeSelection@135", "logError@138">>)
    ELSE Outcome(Bool(FALSE), subset, selection,
                 <<"removeSelection@135", "logError@138">>)

\* return count / return -1
IntResult(n) == [kind |-> "int", success |-> n >= 0, count |-> n, msg |-> ""]

SelectAllSites == {"selectAll@156", "selectedFeatureCount@157", "logInfo@158",
                   "logError@161"}

\* lines 155-159, the try body of select_all_in_filter
SelectAllTryBody(faults) ==
    LET all == VisibleIds(subset, pk)
    IN  IF "selectAll@156" \in faults
        THEN Body("Exception", NoResult, subset, selection, <<"selectAll@156">>)
        ELSE IF "selectedFeatureCount@157" \in faults
        THEN Body("Exception", NoResult, subset, all,
                  <<"selectAll@156", "selectedFeatureCount@157">>)
        ELSE IF "logInfo@158" \in faults
        THEN Body("Exception", NoResult, subset, all,
                  <<"selectAll@156", "selectedFeatureCount@157", "logInfo@158">>)
        ELSE Body("", IntResult(Cardinality(all)), subset, all,
                  <<"selectAll@156", "selectedFeatureCount@157", "logInfo@158">>)

\* SelectionManager.select_all_in_filter(layer)
select_all_in_filter(present, faults) ==
    IF ~present
    THEN Outcome(IntResult(-1), subset, selection, <<>>)
    ELSE LET b == SelectAllTryBody(faults)
         IN  IF b.exc = ""
             THEN Outcome(b.ret, b.subset, b.selection, b.calls)
             ELSE IF "logError@161" \in faults
             THEN Outcome(Raised, b.subset, b.selection, Append(b.calls, "logError@161"))
             ELSE Outcome(IntResult(-1), b.subset, b.selection, Append(b.calls, "logError@161"))

\* SelectionManager.has_active_filter(layer): bool(layer.subsetString())
has_active_filter(present, sub) == IF ~present THEN FALSE ELSE sub # <<>>

(***************************************************************************)
(* SelectionManager.get_filtered_feature_ids,                              *)
(* clear_filter_and_select_features                                        *)
(***************************************************************************)
ClearSelectSites == {"subsetString@235", "subsetString@205", "getFeatures@211",
                     "logInfo@214", "logError@217", "setSubsetString@246",
                     "selectByIds@249", "logInfo@252", "logError@258"}

\* what get_filtered_feature_ids leaves: the list returned, or an exception
Ids(exc, ids, cs) == [exc |-> exc, ids |-> ids, calls |-> cs]

\* get_filtered_feature_ids enumerating the whole layer, whatever the filter
get_filtered_feature_ids_unfiltered(sub, faults, pre) ==
    LET c1 == Append(pre, "subsetString@205")
        c3 == c1 \o <<"getFeatures@211", "logInfo@214">>
    IN  IF sub = <<>> THEN Ids("", <<>>, c1) ELSE Ids("", IdList(Features), c3)

\* SelectionManager.get_filtered_feature_ids(layer), called with a layer whose
\* subset string is sub
get_filtered_feature_ids(sub, faults, pre) ==
    LET c1 == Append(pre, "subsetString@205")
        c2 == Append(c1, "getFeatures@211")
        c3 == Append(c2, "logInfo@214")
    IN  IF "subsetString@205" \in faults THEN Ids("Exception", <<>>, c1)
        ELSE IF sub = <<>> THEN Ids("", <<>>, c1)
        ELSE IF "getFeatures@211" \in faults
        THEN IF "logError@217" \in faults
             THEN Ids("Exception", <<>>, Append(c2, "logError@217"))
             ELSE Ids("", <<>>, Append(c2, "logError@217"))
        ELSE IF "logInfo@214" \in faults
        THEN IF "logError@217" \in faults
             THEN Ids("Exception", <<>>, Append(c3, "logError@217"))
             ELSE Ids("", <<>>, Append(c3, "logError@217"))
        ELSE Ids("", IdList(VisibleIds(sub, pk)), c3)

\* the try body with the filter cleared before the snapshot is taken
ClearSelectTryBodyClearFirst(faults, pre) ==
    LET c1 == Append(pre, "setSubsetString@246")
        g == get_filtered_feature_ids(<<>>, faults, c1)
        filtered_ids == g.ids
        ids == {filtered_ids[i] : i \in DOMAIN filtered_ids}
        c2 == Append(g.calls, "selectByIds@249")
        c3 == Append(c2, "logInfo@252")
    IN  IF "setSubsetString@246" \in faults
        THEN Body("Exception", NoResult, subset, selection, c1)
        ELSE IF g.exc # ""
        THEN Body("Exception", NoResult, <<>>, selection, g.calls)
        ELSE IF filtered_ids = <<>>
        THEN Body("", Tuple(FALSE, 0, "No features in filter"), <<>>, selection, g.calls)
        ELSE Body("", Tuple(TRUE, Len(filtered_ids), ""), <<>>, ids, c3)

\* lines 239-254, the try body of clear_filter_and_select_features
ClearSelectTryBody(faults, pre) ==
    LET g == get_filtered_feature_ids(subset, faults, pre)
        filtered_ids == g.ids
        ids == {filtered_ids[i] : i \in DOMAIN filtered_ids}
        c1 == Append(g.calls, "setSubsetString@246")
        c2 == Append(c1, "selectByIds@249")
        c3 == Append(c2, "logInfo@252")
    IN  IF g.exc # ""
        THEN Body("Exception", NoResult, subset, selection, g.calls)
        ELSE IF filtered_ids = <<>>
        THEN Body("", Tuple(FALSE, 0, "No features in filter"), subset, selection, g.calls)
        ELSE IF "setSubsetString@246" \in faults
        THEN Body("Exception", NoResult, subset, selection, c1)
        ELSE IF "selectByIds@249" \in faults
        THEN Body("Exception", NoResult, <<>>, selection, c2)
        ELSE IF "logInfo@252" \in faults
        THEN Body("Exception", NoResult, <<>>, ids, c3)
        ELSE Body("", Tuple(TRUE, Len(filtered_ids), ""), <<>>, ids, c3)

\* SelectionManager.clear_filter_and_select_features(layer)
clear_filter_and_select_features(present, faults) ==
    IF ~present
    THEN Outcome(Tuple(FALSE, 0, "No layer provided"), subset, selection, <<>>)
    ELSE IF "subsetString@235" \in faults
    THEN Outcome(Raised, subset, selection, <<"subsetString@235">>)
    ELSE IF subset = <<>>
    THEN Outcome(Tuple(FALSE, 0, "No active filter to clear"), subset, selection,
                 <<"subsetString@235">>)
    ELSE LET b == ClearSelectTryBody(faults, <<"subsetString@235">>)
         IN  IF b.exc = ""
             THEN Outcome(b.ret, b.subset, b.selection, b.calls)
             ELSE IF "logError@258" \in faults
             THEN Outcome(Raised, b.subset, b.selection, Append(b.calls, "logError@258"))
             ELSE Outcome(Tuple(FALSE, 0, "Failed to clear filter and select features: <e>"),
                          b.subset, b.selection, Append(b.calls, "logError@258"))

(***************************************************************************)
(* Initial states and actions                                              *)
(***************************************************************************)
\* the sets of call sites that raise in one run: at most MaxFaults of them
FaultSets(sites) == {F \in SUBSET sites : Cardinality(F) <= MaxFaults}

\* the calls of an operation: without a layer (None) no host call is made,
\* with a layer any of the fault sets may strike
Args(faultSets) ==
    {[present |-> FALSE, faults |-> {}]}
    \cup {[present |-> TRUE, faults |-> F] : F \in faultSets}

ApplyArgs          == Args(FaultSets(ApplySites))
ClearFilterArgs    == Args(FaultSets(ClearFilterSites))
ClearSelectArgs    == Args(FaultSets(ClearSelectSites))
ClearSelectionArgs == Args(FaultSets(ClearSelectionSites))
SelectAllArgs      == Args(FaultSets(SelectAllSites))

\* a subset string, set before the plugin runs, that no feature satisfies
NoMatchFilter == InPrefix \o <<"0", ")">>

\* the layer as the plugin may find it
Init ==
    /\ pk \in [Features -> PkDomain]
    /\ hasPK \in BOOLEAN
    /\ editable \in BOOLEAN
    /\ subset \in {<<>>, NoMatchFilter}
    /\ selection \in SUBSET Features
    /\ op = "init"
    /\ layerArg = TRUE
    /\ ret = NoResult
    /\ calls = <<>>
    /\ faulted = {}
    /\ preSubset = subset
    /\ preSelection = selection
    /\ HMIdle /\ STIdle /\ EBIdle /\ DWIdle

\* one run of an operation: the layer after it and the record of the run
Ran(name, present, faults, o) ==
    /\ op' = name
    /\ layerArg' = present
    /\ ret' = o.ret
    /\ calls' = o.calls
    /\ faulted' = faults \cap {o.calls[i] : i \in DOMAIN o.calls}
    /\ preSubset' = subset
    /\ preSelection' = selection
    /\ subset' = o.subset
    /\ selection' = o.selection
    /\ UNCHANGED <<pk, hasPK, editable>>
    /\ UNCHANGED <<hmVars, stVars, ebVars, dwVars>>

ApplyFilterToSelection ==
    \E a \in ApplyArgs, order \in Orders(selection) :
        Ran("apply_filter_to_selection", a.present, a.faults,
            apply_filter_to_selection(a.present, order, a.faults))

ClearFilter ==
    \E a \in ClearFilterArgs :
        Ran("clear_filter", a.present, a.faults, clear_filter(a.present, a.faults))

ClearSelection ==
    \E a \in ClearSelectionArgs :
        Ran("clear_selection", a.present, a.faults,
            clear_selection(a.present, a.faults))

SelectAllInFilter ==
    \E a \in SelectAllArgs :
        Ran("select_all_in_filter", a.present, a.faults,
            select_all_in_filter(a.present, a.faults))

ClearFilterAndSelectFeatures ==
    \E a \in ClearSelectArgs :
        Ran("clear_filter_and_select_features", a.present, a.faults,
            clear_filter_and_select_features(a.present, a.faults))

\* the user starts or ends an edit session on the layer (host action)
ToggleEditing ==
    /\ editable' = ~editable
    /\ op' = "toggle_editing"
    /\ layerArg' = TRUE
    /\ ret' = NoResult
    /\ calls' = <<>>
    /\ faulted' = {}
    /\ preSubset' = subset
    /\ preSelection' = selection
    /\ UNCHANGED <<pk, hasPK, subset, selection>>
    /\ UNCHANGED <<hmVars, stVars, ebVars, dwVars>>

Next ==
    \/ ApplyFilterToSelection
    \/ ClearFilter
    \/ ClearSelection
    \/ SelectAllInFilter
    \/ ClearFilterAndSelectFeatures
    \/ ToggleEditing

Spec == Init /\ [][Next]_vars

(***************************************************************************)
(* Properties of the selection manager                                     *)
(***************************************************************************)
EditMsg == "Filter cannot be applied: Layer has an active edit session"

\* the position of a call site in the trace of the last operation, 0 if absent
Pos(site) == IF \E i \in DOMAIN calls : calls[i] = site
             THEN CHOOSE i \in DOMAIN calls : calls[i] = site
             ELSE 0

\* the primary-key values of the features listed by order, nulls dropped
KeptValues(order) ==
    SelectSeq([i \in DOMAIN order |-> pk[order[i]]], LAMBDA v : ~IsNullValue(v))

\* the items of the IN list of subset string s, as a list
ListItems(s) ==
    IF Len(s) > Len(InPrefix) /\ SubSeq(s, 1, Len(InPrefix)) = InPrefix
       /\ s[Len(s)] = ")"
    THEN SplitItems(SubSeq(s, Len(InPrefix) + 1, Len(s) - 1), <<>>, FALSE)
    ELSE <<>>

\* "pk_field" IN (v1,...,vn), every string quoted and escaped, every number bare
QuotedFilter(vals) ==
    InPrefix \o JoinComma([i \in DOMAIN vals |-> SqlLiteral(vals[i])]) \o <<")">>

C2_SnapshotClearSelectOrder ==
    op = "clear_filter_and_select_features" =>
      /\ ret.success =>
            /\ 0 < Pos("getFeatures@211")
            /\ Pos("getFeatures@211") < Pos("setSubsetString@246")
            /\ Pos("setSubsetString@246") < Pos("selectByIds@249")
            /\ faulted = {}
            /\ selection = VisibleIds(preSubset, pk)
      /\ Pos("setSubsetString@246") > 0 =>
            /\ 0 < Pos("getFeatures@211")
            /\ Pos("getFeatures@211") < Pos("setSubsetString@246")
            /\ "getFeatures@211" \notin faulted
      /\ Pos("selectByIds@249") > 0 =>
            /\ Pos("setSubsetString@246") > 0
            /\ Pos("setSubsetString@246") < Pos("selectByIds@249")
            /\ "setSubsetString@246" \notin faulted

\* a successful run whose snapshot is part of the layer and changed the selection
C2_Witness ==
    /\ op = "clear_filter_and_select_features" /\ ret.success
    /\ selection # Features /\ selection # preSelection
    /\ Pos("selectByIds@249") = Len(calls) - 1

\* C3 (as claimed): every run of clear_filter_and_select_features either
\* cleared the filter and selected the snapshot, or changed neither.
C3_ClearAndSelectAtomic ==
    op = "clear_filter_and_select_features" =>
      \/ subset = <<>> /\ preSubset # <<>> /\ selection = VisibleIds(preSubset, pk)
      \/ subset = preSubset /\ selection = preSelection

\* C4 (as claimed): without an edit session, with a primary key and a
\* selection, the IN list holds the non-null key values of the selected
\* features in encounter order, duplicates kept, and the call returns
\* (True, n, ""); with only null keys it fails and leaves the filter alone.
C4_NonNullKeysInOrder ==
    (op = "apply_filter_to_selection" /\ layerArg /\ ~editable /\ hasPK
        /\ preSelection # {} /\ faulted = {})
    => \E order \in Orders(preSelection) :
         LET kept == KeptValues(order)
             items == ListItems(subset)
         IN  IF kept = <<>>
             THEN /\ ret = Tuple(FALSE, 0,
                           "No valid primary key values found in selected features")
                  /\ subset = preSubset
             ELSE /\ ret = Tuple(TRUE, Len(kept), "")
                  /\ Len(items) = Len(kept)
                  /\ \A i \in DOMAIN kept :
                        items[i] \in {PyStr(kept[i]), SqlLiteral(kept[i])}

\* C5: apply_filter_to_selection fails, changing neither filter nor
\* selection, for: no layer, an edit session, no selection, no primary key;
\* when several hold the message is that of the first in this order.
C5_FailurePriority ==
    (op = "apply_filter_to_selection" /\ faulted = {}) =>
      LET expected ==
            IF ~layerArg THEN "No layer provided"
            ELSE IF editable THEN EditMsg
            ELSE IF preSelection = {} THEN "No features selected"
            ELSE IF ~hasPK THEN "Layer has no primary key"
            ELSE ""
      IN  expected # "" =>
            /\ ret = Tuple(FALSE, 0, expected)
            /\ subset = preSubset
            /\ selection = preSelection

\* an editable layer without primary key and without selection: three
\* failure conditions at once
C5_Witness ==
    /\ op = "apply_filter_to_selection" /\ layerArg
    /\ editable /\ preSelection = {} /\ ~hasPK
    /\ ret.msg = EditMsg

\* C6 (as claimed): the filter a successful apply_filter_to_selection assigns
\* is "pk_field" IN (v1,...,vn) with every string value single-quoted, its
\* quotes doubled, and every numeric value bare, also for mixed lists.
C6_StringsQuotedNumbersBare ==
    (op = "apply_filter_to_selection" /\ ret.success) =>
      \E order \in Orders(preSelection) : subset = QuotedFilter(KeptValues(order))

\* C7 (as claimed): while the edit session is open none of
\* apply_filter_to_selection, clear_filter, clear_filter_and_select_features
\* changes the subset filter.
C7_NoFilterOpWhileEditing ==
    (editable /\ op \in {"apply_filter_to_selection", "clear_filter",
                         "clear_filter_and_select_features"})
    => subset = preSubset

\* C7 (amended): while the edit session is open apply_filter_to_selection
\* never succeeds and never changes the subset filter; clear_filter is not
\* guarded by the edit session and clears the filter all the same.
C7_OnlyApplyRejectedWhileEditing ==
    /\ (editable /\ op = "apply_filter_to_selection")
          => (subset = preSubset /\ ~ret.success)
    /\ (editable /\ op = "clear_filter" /\ layerArg /\ faulted = {})
          => (subset = <<>> /\ ret = Bool(TRUE))

\* an editable layer, unfiltered, whose selection would have given a filter
C7_Witness ==
    /\ op = "apply_filter_to_selection" /\ layerArg /\ editable
    /\ hasPK /\ preSubset = <<>>
    /\ \E f \in preSelection : ~IsNullValue(pk[f])
    /\ ret = Tuple(FALSE, 0, EditMsg)

\* C8 (as claimed): no exception of a host call leaves
\* apply_filter_to_selection or clear_filter_and_select_features: each
\* returns a (False, 0, message) tuple instead.
C8_NoExceptionEscapes ==
    (op \in {"apply_filter_to_selection", "clear_filter_and_select_features"}
        /\ faulted # {})
    => (ret.kind = "tuple" /\ ~ret.success /\ ret.count = 0)

\* C9: clear_filter_and_select_features succeeds exactly when given a layer
\* with a non-empty filter under which a feature is visible; then the filter
\* is empty, the selection is exactly the ids that were visible and the count
\* is their number; an empty filter and an empty snapshot fail with their
\* messages.
C9_ClearAndSelectResult ==
    (op = "clear_filter_and_select_features" /\ faulted = {}) =>
      LET snapshot == VisibleIds(preSubset, pk)
      IN  /\ ret.success <=> (layerArg /\ preSubset # <<>> /\ snapshot # {})
          /\ ret.success =>
                /\ subset = <<>>
                /\ selection = snapshot
                /\ ret = Tuple(TRUE, Cardinality(snapshot), "")
          /\ (layerArg /\ preSubset = <<>>)
                => ret = Tuple(FALSE, 0, "No active filter to clear")
          /\ (layerArg /\ preSubset # <<>> /\ snapshot = {})
                => ret = Tuple(FALSE, 0, "No features in filter")
          /\ ~ret.success => (subset = preSubset /\ selection = preSelection)

\* a success that replaced a selection reaching outside the snapshot
C9_Witness ==
    /\ op = "clear_filter_and_select_features" /\ ret.success
    /\ ret.count >= 1
    /\ ~(preSelection \subseteq selection)

\* C10, after one call: clear_filter on a layer returns True, leaves the
\* filter empty and the selection untouched, also when no filter was set, and
\* has_active_filter is False after every successful clear_filter.
C10_AfterClear ==
    /\ (op = "clear_filter" /\ layerArg /\ faulted = {}) =>
          /\ ret = Bool(TRUE)
          /\ subset = <<>>
          /\ selection = preSelection
    /\ (op = "clear_filter" /\ ret.success) => ~has_active_filter(layerArg, subset)

\* C10, a second call in a row: it returns True and changes nothing
C10_SecondClear ==
    (op = "clear_filter" /\ ret.success
        /\ op' = "clear_filter" /\ layerArg' /\ faulted' = {})
    => /\ ret' = Bool(TRUE)
       /\ subset' = subset
       /\ selection' = selection
       /\ ~has_active_filter(layerArg', subset')

\* C10: clear_filter is idempotent.
C10_ClearFilterIdempotent == []C10_AfterClear /\ [][C10_SecondClear]_vars

\* clear_filter called with no filter present, on a layer with a selection
C10_Witness ==
    /\ op = "clear_filter" /\ layerArg /\ ret = Bool(TRUE)
    /\ preSubset = <<>> /\ subset = <<>>
    /\ selection # {}

(***************************************************************************)
(* HighlightManager (core/highlight_manager.py)                            *)
(***************************************************************************)
\* how many QgsHighlight overlays are created in one run of the model
MaxOverlays == 4

\* the names highlights are added under
HighlightNames == {"reference", "match", "hover"}

\* no layer in use
SMIdle ==
    /\ pk = [f \in Features |-> PyNone] /\ hasPK = FALSE /\ editable = FALSE
    /\ subset = <<>> /\ selection = {}
    /\ op = "init" /\ layerArg = TRUE /\ ret = NoResult /\ calls = <<>>
    /\ faulted = {} /\ preSubset = <<>> /\ preSelection = {}

\* what a HighlightManager method leaves: its result, the dict, the overlays
HM(r, h, ov) == [ret |-> r, highlights |-> h, overlays |-> ov]

\* remove_highlight hiding the overlay but keeping the dict entry
remove_highlight_keeps_entry(h, ov, name) ==
    IF name \in DOMAIN h
    THEN HM("True", h, [ov EXCEPT ![h[name]].shown = FALSE])
    ELSE HM("False", h, ov)

\* HighlightManager.remove_highlight(name)
remove_highlight(h, ov, name) ==
    IF name \in DOMAIN h
    THEN HM("True", [n \in DOMAIN h \ {name} |-> h[n]],
            [ov EXCEPT ![h[name]].shown = FALSE])
    ELSE HM("False", h, ov)

\* add_highlight without the removal of the old highlight
add_highlight_no_teardown(h, ov, name) ==
    HM("None", [n \in DOMAIN h \cup {name} |-> IF n = name THEN Len(ov) + 1 ELSE h[n]],
       Append(ov, [name |-> name, shown |-> TRUE]))

\* HighlightManager.add_highlight(name, geometry, layer, color, width)
add_highlight(h, ov, name) ==
    LET r == remove_highlight(h, ov, name)
        highlight == Len(r.overlays) + 1
    IN  HM("None",
           [n \in DOMAIN r.highlights \cup {name} |->
               IF n = name THEN highlight ELSE r.highlights[n]],
           Append(r.overlays, [name |-> name, shown |-> TRUE]))

\* HighlightManager.has_highlight(name)
has_highlight(h, name) == name \in DOMAIN h

\* clear_all emptying the dict without hiding the overlays
clear_all_no_hide(h, ov) == HM("None", Empty, ov)

\* HighlightManager.clear_all()
clear_all(h, ov) ==
    HM("None", Empty,
       [i \in DOMAIN ov |->
           IF \E n \in DOMAIN h : h[n] = i THEN [ov[i] EXCEPT !.shown = FALSE]
           ELSE ov[i]])

\* HighlightManager.get_highlight_names(): the keys of the dict
get_highlight_names(h) == DOMAIN h

\* HighlightManager(canvas)
HMInit ==
    /\ highlights = Empty /\ overlays = <<>> /\ live = {}
    /\ hmOp = "init" /\ hmName = "" /\ hmRet = "None"
    /\ preHighlights = Empty /\ preOverlays = <<>>
    /\ SMIdle /\ STIdle /\ EBIdle /\ DWIdle

\* one call of a HighlightManager method
HMRan(name, arg, r) ==
    /\ hmOp' = name
    /\ hmName' = arg
    /\ hmRet' = r.ret
    /\ highlights' = r.highlights
    /\ overlays' = r.overlays
    /\ preHighlights' = highlights
    /\ preOverlays' = overlays
    /\ UNCHANGED <<smVars, stVars, ebVars, dwVars>>

AddHighlight ==
    \E name \in HighlightNames :
        /\ Len(overlays) < MaxOverlays
        /\ live' = live \cup {name}
        /\ HMRan("add_highlight", name, add_highlight(highlights, overlays, name))

RemoveHighlight ==
    \E name \in HighlightNames :
        /\ live' = live \ {name}
        /\ HMRan("remove_highlight", name, remove_highlight(highlights, overlays, name))

ClearAll ==
    /\ live' = {}
    /\ HMRan("clear_all", "", clear_all(highlights, overlays))

HMNext == AddHighlight \/ RemoveHighlight \/ ClearAll

SpecHM == HMInit /\ [][HMNext]_vars

(***************************************************************************)
(* Properties of the highlight manager                                     *)
(***************************************************************************)
\* the overlays created under name n that are shown
Shown(n) == {i \in DOMAIN overlays : overlays[i].name = n /\ overlays[i].shown}

\* the overlays the dict tracks
Tracked(h) == {h[n] : n \in DOMAIN h}

\* C11: each name has at most one shown highlight; after add_highlight the
\* name has exactly one, the one registered; get_highlight_names has as many
\* names as were added and not removed since.
C11_OneHighlightPerName ==
    /\ \A n \in HighlightNames : Cardinality(Shown(n)) <= 1
    /\ hmOp = "add_highlight" =>
          /\ has_highlight(highlights, hmName)
          /\ Shown(hmName) = {highlights[hmName]}
    /\ Cardinality(get_highlight_names(highlights)) = Cardinality(live)
    /\ get_highlight_names(highlights) = live

\* a highlight added under a name that had one, another name being tracked
C11_Witness ==
    /\ hmOp = "add_highlight" /\ hmName \in DOMAIN preHighlights
    /\ Cardinality(live) >= 2

\* C12: every overlay created and not tracked is hidden, every tracked
\* overlay is shown; after clear_all nothing is tracked and all are hidden.
C12_NoOverlayLeak ==
    /\ \A i \in DOMAIN overlays : overlays[i].shown <=> i \in Tracked(highlights)
    /\ hmOp = "clear_all" =>
          /\ highlights = Empty
          /\ \A i \in DOMAIN overlays : ~overlays[i].shown

\* clear_all on a manager tracking two overlays, with an older one replaced
C12_Witness ==
    /\ hmOp = "clear_all"
    /\ Cardinality(Tracked(preHighlights)) >= 2
    /\ Len(overlays) > Cardinality(Tracked(preHighlights))

\* C13, one call: an unknown name gives False and changes nothing; a tracked
\* name gives True, hides its overlay and removes that entry only.
C13_AfterRemove ==
    hmOp = "remove_highlight" =>
      IF hmName \notin DOMAIN preHighlights
      THEN /\ hmRet = "False"
           /\ highlights = preHighlights
           /\ overlays = preOverlays
      ELSE /\ hmRet = "True"
           /\ DOMAIN highlights = DOMAIN preHighlights \ {hmName}
           /\ \A n \in DOMAIN highlights : highlights[n] = preHighlights[n]
           /\ ~overlays[preHighlights[hmName]].shown
           /\ Len(overlays) = Len(preOverlays)
           /\ \A i \in DOMAIN overlays :
                 i # preHighlights[hmName] => overlays[i] = preOverlays[i]

\* C13, a second remove of the same name: False, nothing changes
C13_SecondRemove ==
    (hmOp = "remove_highlight" /\ hmOp' = "remove_highlight" /\ hmName' = hmName)
    => /\ hmRet' = "False"
       /\ highlights' = highlights
       /\ overlays' = overlays

\* C13: remove_highlight is idempotent.
C13_RemoveIdempotent == []C13_AfterRemove /\ [][C13_SecondRemove]_vars

\* a tracked name removed while another stays tracked
C13_Witness ==
    /\ hmOp = "remove_highlight" /\ hmRet = "True"
    /\ highlights # Empty
    /\ hmName \notin DOMAIN highlights

(***************************************************************************)
(* SettingsManager (utils/settings_manager.py) over QSettings              *)
(***************************************************************************)
KEY_CURRENT_LAYER      == "/SelectMatchingFeatures/currentLayer"
KEY_CURRENT_FIELD      == "/SelectMatchingFeatures/currentField"
KEY_HIDE_NON_MATCHING  == "/SelectMatchingFeatures/hideNonMatching"
KEY_SELECT_FILTERED    == "/SelectMatchingFeatures/selectFiltered"
KEY_OPERATOR           == "/SelectMatchingFeatures/operator"
KEY_ADVANCED_COLLAPSED == "/SelectMatchingFeatures/advancedCollapsed"

\* a key of QSettings that is not the plugin's
OtherKey == "/qgis/locale"

\* Python None passed where a string is expected
NoneArg == "<None>"

\* bool(x) is False: None and the empty string
PyFalsy(x) == x \in {NoneArg, ""}

\* the arguments the setters are called with
LayerArgs    == {NoneArg, "", "layer_1", "layer_2"}
FieldArgs    == {NoneArg, "", "name"}
OperatorArgs == {"=", "!=", "<", ">", "<=", ">=", NoneArg, "", "==", "LIKE"}

\* QSettings.value(key, default)
value(st, key, default) == IF key \in DOMAIN st THEN st[key] ELSE default

\* QSettings.setValue(key, v)
setValue(st, key, v) ==
    [k \in DOMAIN st \cup {key} |-> IF k = key THEN v ELSE st[k]]

\* QSettings.remove(key)
remove(st, key) == [k \in DOMAIN st \ {key} |-> st[k]]

get_current_layer(st)      == value(st, KEY_CURRENT_LAYER, "")
get_current_field(st)      == value(st, KEY_CURRENT_FIELD, "")
get_hide_non_matching(st)  == value(st, KEY_HIDE_NON_MATCHING, FALSE)
get_select_filtered(st)    == value(st, KEY_SELECT_FILTERED, FALSE)
get_operator(st)           == value(st, KEY_OPERATOR, "=")
get_advanced_collapsed(st) == value(st, KEY_ADVANCED_COLLAPSED, TRUE)

\* set_current_layer writing whatever it is given
set_current_layer_unguarded(st, layer_id) == setValue(st, KEY_CURRENT_LAYER, layer_id)

\* SettingsManager.set_current_layer(layer_id)
set_current_layer(st, layer_id) ==
    IF ~PyFalsy(layer_id) THEN setValue(st, KEY_CURRENT_LAYER, layer_id) ELSE st

\* SettingsManager.set_current_field(field_name)
set_current_field(st, field_name) ==
    IF ~PyFalsy(field_name) THEN setValue(st, KEY_CURRENT_FIELD, field_name) ELSE st

\* SettingsManager.set_hide_non_matching(hide_mode)
set_hide_non_matching(st, hide_mode) == setValue(st, KEY_HIDE_NON_MATCHING, hide_mode)

\* SettingsManager.set_select_filtered(select_filtered)
set_select_filtered(st, select_filtered) ==
    setValue(st, KEY_SELECT_FILTERED, select_filtered)

\* set_operator writing whatever it is given
set_operator_unchecked(st, operator) == setValue(st, KEY_OPERATOR, operator)

\* SettingsManager.set_operator(operator)
set_operator(st, operator) ==
    IF operator \in {"=", "!=", "<", ">", "<=", ">="}
    THEN setValue(st, KEY_OPERATOR, operator)
    ELSE st

\* SettingsManager.set_advanced_collapsed(collapsed)
set_advanced_collapsed(st, collapsed) == setValue(st, KEY_ADVANCED_COLLAPSED, collapsed)

\* reset_all forgetting the key added last
reset_all_but_advanced(st) ==
    remove(remove(remove(remove(remove(st,
        KEY_CURRENT_LAYER), KEY_CURRENT_FIELD), KEY_HIDE_NON_MATCHING),
        KEY_SELECT_FILTERED), KEY_OPERATOR)

\* SettingsManager.reset_all()
reset_all(st) ==
    remove(remove(remove(remove(remove(remove(st,
        KEY_CURRENT_LAYER), KEY_CURRENT_FIELD), KEY_HIDE_NON_MATCHING),
        KEY_SELECT_FILTERED), KEY_OPERATOR), KEY_ADVANCED_COLLAPSED)

\* SettingsManager(): a fresh store, or one holding only settings of the host
STInit ==
    /\ store \in {Empty, [k \in {OtherKey} |-> "en"]}
    /\ stOp = "init" /\ stArg = "" /\ preStore = store
    /\ SMIdle /\ HMIdle /\ EBIdle /\ DWIdle

\* one call of a SettingsManager method
STRan(name, arg, st) ==
    /\ stOp' = name
    /\ stArg' = arg
    /\ store' = st
    /\ preStore' = store
    /\ UNCHANGED <<smVars, hmVars, ebVars, dwVars>>

SetCurrentLayer ==
    \E a \in LayerArgs : STRan("set_current_layer", a, set_current_layer(store, a))

SetCurrentField ==
    \E a \in FieldArgs : STRan("set_current_field", a, set_current_field(store, a))

SetHideNonMatching ==
    \E a \in BOOLEAN :
        STRan("set_hide_non_matching", a, set_hide_non_matching(store, a))

SetSelectFiltered ==
    \E a \in BOOLEAN : STRan("set_select_filtered", a, set_select_filtered(store, a))

SetOperator ==
    \E a \in OperatorArgs : STRan("set_operator", a, set_operator(store, a))

SetAdvancedCollapsed ==
    \E a \in BOOLEAN :
        STRan("set_advanced_collapsed", a, set_advanced_collapsed(store, a))

ResetAll == STRan("reset_all", "", reset_all(store))

STNext ==
    \/ SetCurrentLayer
    \/ SetCurrentField
    \/ SetHideNonMatching
    \/ SetSelectFiltered
    \/ SetOperator
    \/ SetAdvancedCollapsed
    \/ ResetAll

SpecST == STInit /\ [][STNext]_vars

(***************************************************************************)
(* Properties of the settings store                                        *)
(***************************************************************************)
SixSymbols == {"=", "!=", "<", ">", "<=", ">="}

PluginKeys == {KEY_CURRENT_LAYER, KEY_CURRENT_FIELD, KEY_HIDE_NON_MATCHING,
               KEY_SELECT_FILTERED, KEY_OPERATOR, KEY_ADVANCED_COLLAPSED}

\* stores a and b agree on every key but key
SameExcept(a, b, key) ==
    \A k \in (DOMAIN a \cup DOMAIN b) \ {key} :
        k \in DOMAIN a /\ k \in DOMAIN b /\ a[k] = b[k]

\* C14: get_operator on a fresh store is "="; set_operator with a value
\* outside the six symbols writes nothing; with one of the six, get_operator
\* returns it and no other key changes.
C14_SetOperator ==
    /\ stOp = "init" => get_operator(store) = "="
    /\ (stOp = "set_operator" /\ stArg \notin SixSymbols) =>
          /\ store = preStore
          /\ get_operator(store) = get_operator(preStore)
    /\ (stOp = "set_operator" /\ stArg \in SixSymbols) =>
          /\ get_operator(store) = stArg
          /\ SameExcept(store, preStore, KEY_OPERATOR)

\* an invalid operator offered to a store holding "<="
C14_Witness ==
    /\ stOp = "set_operator" /\ stArg = "LIKE"
    /\ get_operator(store) = "<="

\* C15: set_current_layer and set_current_field with an empty or falsy
\* argument leave the whole store unchanged; with a non-empty argument the
\* getter returns it and the other five keys are unchanged.
C15_LayerAndFieldSetters ==
    /\ (stOp \in {"set_current_layer", "set_current_field"} /\ PyFalsy(stArg)) =>
          store = preStore
    /\ (stOp = "set_current_layer" /\ ~PyFalsy(stArg)) =>
          /\ get_current_layer(store) = stArg
          /\ SameExcept(store, preStore, KEY_CURRENT_LAYER)
    /\ (stOp = "set_current_field" /\ ~PyFalsy(stArg)) =>
          /\ get_current_field(store) = stArg
          /\ SameExcept(store, preStore, KEY_CURRENT_FIELD)

\* an empty layer id offered to a store holding a layer id and a field name
C15_Witness ==
    /\ stOp = "set_current_layer" /\ stArg = ""
    /\ get_current_layer(store) = "layer_1"
    /\ get_current_field(store) = "name"

\* C16: after reset_all the six keys are absent and every getter returns its
\* default: "", "", False, False, "=", and True for advanced-collapsed.
C16_ResetAll ==
    stOp = "reset_all" =>
      /\ PluginKeys \cap DOMAIN store = {}
      /\ get_current_layer(store) = ""
      /\ get_current_field(store) = ""
      /\ get_hide_non_matching(store) = FALSE
      /\ get_select_filtered(store) = FALSE
      /\ get_operator(store) = "="
      /\ get_advanced_collapsed(store) = TRUE

\* reset_all of a store in which all six keys were set, none to its default
C16_Witness ==
    /\ stOp = "reset_all"
    /\ PluginKeys \subseteq DOMAIN preStore
    /\ get_operator(preStore) = ">=" /\ get_advanced_collapsed(preStore) = FALSE
    /\ get_hide_non_matching(preStore) = TRUE

(***************************************************************************)
(* OperatorManager (utils/operators.py)                                    *)
(***************************************************************************)
\* the operator table; None is written NoneArg
OPERATORS ==
    [o \in {"=", "!=", "<", ">", "<=", ">="} |->
        [symbol |-> o,
         name |-> CASE o = "="  -> "Equal"
                    [] o = "!=" -> "Not Equal"
                    [] o = "<"  -> "Less Than"
                    [] o = ">"  -> "Greater Than"
                    [] o = "<=" -> "Less or Equal"
                    [] o = ">=" -> "Greater or Equal",
         sql_null |-> CASE o = "="  -> "IS NULL"
                        [] o = "!=" -> "IS NOT NULL"
                        [] OTHER    -> NoneArg]]

\* dict.get(key, default)
DictGet(d, key, default) == IF key \in DOMAIN d THEN d[key] ELSE default

\* is_null_compatible answering for every registered operator
is_null_compatible_registered(operator) == operator \in DOMAIN OPERATORS

\* OperatorManager.is_null_compatible(operator)
is_null_compatible(operator) ==
    DictGet(DictGet(OPERATORS, operator, Empty), "sql_null", NoneArg) # NoneArg

\* OperatorManager.get_null_sql(operator)
get_null_sql(operator) ==
    DictGet(DictGet(OPERATORS, operator, Empty), "sql_null", NoneArg)

\* OperatorManager.validate_operator(operator)
validate_operator(operator) == operator \in DOMAIN OPERATORS

\* OperatorManager.get_operator_name(operator)
get_operator_name(operator) ==
    DictGet(DictGet(OPERATORS, operator, Empty), "name", operator)

(***************************************************************************)
(* ExpressionBuilder (core/expression_builder.py)                          *)
(***************************************************************************)
\* the characters of the texts that are formatted into an expression
Chars(s) ==
    CASE s = "="  -> <<"=">>
      [] s = "!=" -> <<"!", "=">>
      [] s = "<"  -> <<"<">>
      [] s = ">"  -> <<">">>
      [] s = "<=" -> <<"<", "=">>
      [] s = ">=" -> <<">", "=">>
      [] s = "==" -> <<"=", "=">>
      [] s = ""   -> <<>>
      [] s = "LIKE" -> <<"L", "I", "K", "E">>
      [] s = NoneArg -> <<"N", "o", "n", "e">>
      [] s = "IS NULL" -> <<"I", "S", " ", "N", "U", "L", "L">>
      [] s = "IS NOT NULL" -> <<"I", "S", " ", "N", "O", "T", " ", "N", "U", "L", "L">>
      [] s = "NULL" -> <<"N", "U", "L", "L">>
      [] s = "True" -> <<"T", "r", "u", "e">>
      [] s = "False" -> <<"F", "a", "l", "s", "e">>

BoolVal(b) == [t |-> "bool", v |-> b]
FloatVal(whole, frac) == [t |-> "float", v |-> <<whole, frac>>]

\* str(value), which is also what an f-string puts for {value}
str(v) ==
    CASE v.t = "str"   -> v.v
      [] v.t = "int"   -> IF v.v < 0 THEN <<"-">> \o IntToStr(0 - v.v)
                          ELSE IntToStr(v.v)
      [] v.t = "float" -> IntToStr(v.v[1]) \o <<".">> \o IntToStr(v.v[2])
      [] v.t = "bool"  -> IF v.v THEN Chars("True") ELSE Chars("False")
      [] v.t = "qnull" -> Chars("NULL")
      [] v.t = "none"  -> Chars(NoneArg)

\* s.replace(old, new) for a one-character old
RECURSIVE replace(_, _, _)
replace(s, old, new) ==
    IF s = <<>> THEN <<>>
    ELSE (IF Head(s) = old THEN new ELSE <<Head(s)>>) \o replace(Tail(s), old, new)

\* a returned (expression, display_value)
Built(expr, display) ==
    [kind |-> "tuple", exc |-> "", expr |-> expr, display |-> display]

\* a raised exception
Raises(exc) == [kind |-> "raise", exc |-> exc, expr |-> <<>>, display |-> <<>>]

\* f'"{field_name}" {rest}'
FieldThen(field_name, rest) == <<"\"">> \o field_name \o <<"\"", " ">> \o rest

\* _build_null_expression formatting whatever get_null_sql gives
_build_null_expression_unchecked(field_name, operator) ==
    Built(FieldThen(field_name, Chars(get_null_sql(operator))), Chars("NULL"))

\* ExpressionBuilder._build_null_expression(field_name, operator)
_build_null_expression(field_name, operator) ==
    IF ~is_null_compatible(operator)
    THEN Raises("ValueError")
    ELSE Built(FieldThen(field_name, Chars(get_null_sql(operator))), Chars("NULL"))

\* _build_string_expression putting the value in as it is
_build_string_expression_unescaped(field_name, operator, val) ==
    Built(FieldThen(field_name, Chars(operator) \o <<" ", "'">> \o val \o <<"'">>),
          <<"'">> \o val \o <<"'">>)

\* ExpressionBuilder._build_string_expression(field_name, operator, value)
_build_string_expression(field_name, operator, val) ==
    LET escaped_value == replace(val, "'", <<"'", "'">>)
    IN  Built(FieldThen(field_name,
                  Chars(operator) \o <<" ", "'">> \o escaped_value \o <<"'">>),
              <<"'">> \o val \o <<"'">>)

\* _build_numeric_expression quoting the value
_build_numeric_expression_quoted(field_name, operator, val) ==
    Built(FieldThen(field_name, Chars(operator) \o <<" ", "'">> \o str(val) \o <<"'">>),
          str(val))

\* ExpressionBuilder._build_numeric_expression(field_name, operator, value)
_build_numeric_expression(field_name, operator, val) ==
    Built(FieldThen(field_name, Chars(operator) \o <<" ">> \o str(val)), str(val))

\* ExpressionBuilder.build_expression(field_name, operator, value)
build_expression(field_name, operator, val) ==
    IF val.t = "none" THEN _build_null_expression(field_name, operator)
    ELSE IF val.t = "str" THEN _build_string_expression(field_name, operator, val.v)
    ELSE _build_numeric_expression(field_name, operator, val)

\* the inputs
FieldNames == {<<"f">>, <<"i", "d">>, <<"a", " ", "b">>, <<"n", "'", "m">>}
OperatorSymbols == {"=", "!=", "<", ">", "<=", ">=", "==", "LIKE", "", NoneArg}
StringValues == {<<>>, <<"a">>, <<"o", "'", "k">>, <<"'", "'">>,
                 <<"'", "x", "'", "s", "'">>, <<"1", "2">>}
OtherValues == {IntVal(0), IntVal(12), IntVal(0 - 3), FloatVal(1, 5),
                BoolVal(TRUE), BoolVal(FALSE), QNull}
Values == {PyNone} \cup {StrVal(s) : s \in StringValues} \cup OtherValues

\* the arguments of one call, nothing computed yet
EBInit ==
    /\ ebField \in FieldNames
    /\ ebOperator \in OperatorSymbols
    /\ ebValue \in Values
    /\ ebResult = NotBuilt
    /\ ebLookup = NotLooked
    /\ SMIdle /\ HMIdle /\ STIdle /\ DWIdle

\* the caller calls build_expression
BuildExpression ==
    /\ ebResult = NotBuilt
    /\ ebResult' = build_expression(ebField, ebOperator, ebValue)
    /\ UNCHANGED <<ebField, ebOperator, ebValue, ebLookup>>
    /\ UNCHANGED <<smVars, hmVars, stVars, dwVars>>

\* the caller asks the OperatorManager about the operator
LookupOperator ==
    /\ ebLookup = NotLooked
    /\ ebLookup' = [done |-> TRUE,
                    compatible |-> is_null_compatible(ebOperator),
                    null_sql |-> get_null_sql(ebOperator),
                    valid |-> validate_operator(ebOperator),
                    name |-> get_operator_name(ebOperator)]
    /\ UNCHANGED <<ebField, ebOperator, ebValue, ebResult>>
    /\ UNCHANGED <<smVars, hmVars, stVars, dwVars>>

EBNext == BuildExpression \/ LookupOperator

SpecEB == EBInit /\ [][EBNext]_vars

(***************************************************************************)
(* Properties of the expression builder and of the operator registry       *)
(***************************************************************************)
\* how many times character c occurs in s
RECURSIVE CountChar(_, _)
CountChar(s, c) ==
    IF s = <<>> THEN 0
    ELSE (IF Head(s) = c THEN 1 ELSE 0) + CountChar(Tail(s), c)

\* s read back as a literal body: each pair of quotes stands for one quote,
\* and a quote that has no partner stays as it is
RECURSIVE Undoubled(_)
Undoubled(s) ==
    IF s = <<>> THEN <<>>
    ELSE IF Len(s) >= 2 /\ s[1] = "'" /\ s[2] = "'"
         THEN <<"'">> \o Undoubled(Tail(Tail(s)))
         ELSE <<Head(s)>> \o Undoubled(Tail(s))

\* the text a call starts with for field f and operator symbol o: "f" o
Lhs(f, o) == <<"\"">> \o f \o <<"\"", " ">> \o Chars(o) \o <<" ">>

\* s starts with p
StartsWith(s, p) == Len(s) >= Len(p) /\ SubSeq(s, 1, Len(p)) = p

\* what follows the prefix p in s
After(s, p) == SubSeq(s, Len(p) + 1, Len(s))

\* build_expression has returned or raised
BuiltOrRaised == ebResult.kind # "none"

\* C17: with a None value build_expression raises ValueError for each of
\* <, >, <=, >= and produces no expression; for = it returns
\* ("field" IS NULL, "NULL") and for != ("field" IS NOT NULL, "NULL").
C17_NullValue ==
    (BuiltOrRaised /\ ebValue = PyNone) =>
      /\ ebOperator \in {"<", ">", "<=", ">="} =>
            /\ ebResult.kind = "raise" /\ ebResult.exc = "ValueError"
            /\ ebResult.expr = <<>> /\ ebResult.display = <<>>
      /\ ebOperator = "=" =>
            /\ ebResult.kind = "tuple"
            /\ ebResult.expr = <<"\"">> \o ebField \o
                 <<"\"", " ", "I", "S", " ", "N", "U", "L", "L">>
            /\ ebResult.display = <<"N", "U", "L", "L">>
      /\ ebOperator = "!=" =>
            /\ ebResult.kind = "tuple"
            /\ ebResult.expr = <<"\"">> \o ebField \o
                 <<"\"", " ", "I", "S", " ", "N", "O", "T", " ", "N", "U", "L", "L">>
            /\ ebResult.display = <<"N", "U", "L", "L">>

\* a None value was refused for >=
C17_Witness ==
    /\ ebValue = PyNone /\ ebOperator = ">=" /\ ebField = <<"i", "d">>
    /\ ebResult.kind = "raise"

\* C18: with a string value build_expression returns "field" OP 'v2', where
\* v2 is the value with every single quote doubled, so that v2 holds exactly
\* twice the value's single quotes and reads back as the value; the display
\* value is the value itself in one pair of single quotes.
C18_StringValue ==
    (BuiltOrRaised /\ ebValue.t = "str") =>
      LET v    == ebValue.v
          e    == ebResult.expr
          open == Lhs(ebField, ebOperator) \o <<"'">>
          v2   == SubSeq(e, Len(open) + 1, Len(e) - 1)
      IN  /\ ebResult.kind = "tuple"
          /\ StartsWith(e, open)
          /\ Len(e) > Len(open) /\ e[Len(e)] = "'"
          /\ Len(v2) = Len(v) + CountChar(v, "'")
          /\ CountChar(v2, "'") = 2 * CountChar(v, "'")
          /\ Undoubled(v2) = v
          /\ ebResult.display = <<"'">> \o v \o <<"'">>

\* a value with three single quotes, compared with an unregistered operator
C18_Witness ==
    /\ ebValue = StrVal(<<"'", "x", "'", "s", "'">>) /\ ebOperator = "LIKE"
    /\ ebField = <<"f">>
    /\ ebResult.expr = <<"\"", "f", "\"", " ", "L", "I", "K", "E", " ",
                         "'", "'", "'", "x", "'", "'", "s", "'", "'", "'">>

\* a value that is a number
IsNumeric(v) == v.t \in {"int", "float"}

\* C19: every value that is neither None nor a string takes the numeric
\* branch: the expression is "field" OP followed by the value's string form,
\* which is also the display value; for a number that literal holds no quote
\* character.
C19_NumericValue ==
    (BuiltOrRaised /\ ebValue.t \notin {"none", "str"}) =>
      LET e   == ebResult.expr
          lit == After(e, Lhs(ebField, ebOperator))
      IN  /\ ebResult.kind = "tuple"
          /\ StartsWith(e, Lhs(ebField, ebOperator))
          /\ lit = str(ebValue)
          /\ ebResult.display = str(ebValue)
          /\ IsNumeric(ebValue) =>
                CountChar(lit, "'") = 0 /\ CountChar(lit, "\"") = 0

\* a negative number compared with <=
C19_Witness ==
    /\ ebValue = IntVal(0 - 3) /\ ebOperator = "<=" /\ ebField = <<"a", " ", "b">>
    /\ ebResult.expr = <<"\"", "a", " ", "b", "\"", " ", "<", "=", " ", "-", "3">>
    /\ ebResult.display = <<"-", "3">>

\* C20: for every symbol, registered or not, the registry answers:
\* is_null_compatible is True exactly for = and !=, get_null_sql is IS NULL
\* for =, IS NOT NULL for != and None for every other symbol,
\* validate_operator is True exactly for the six registered symbols; and
\* build_expression with a None value and an unregistered operator raises
\* ValueError instead of producing an expression.
C20_RegistryTotal ==
    /\ ebLookup.done =>
          /\ ebLookup.compatible = (ebOperator \in {"=", "!="})
          /\ ebLookup.null_sql = (CASE ebOperator = "="  -> "IS NULL"
                                    [] ebOperator = "!=" -> "IS NOT NULL"
                                    [] OTHER             -> NoneArg)
          /\ ebLookup.valid = (ebOperator \in SixSymbols)
    /\ (BuiltOrRaised /\ ebValue = PyNone /\ ebOperator \notin SixSymbols) =>
          /\ ebResult.kind = "raise" /\ ebResult.exc = "ValueError"
          /\ ebResult.expr = <<>>

\* an unregistered operator looked up and then used with a None value
C20_Witness ==
    /\ ebOperator = "LIKE" /\ ebValue = PyNone
    /\ ebLookup.done /\ ~ebLookup.valid /\ ebLookup.null_sql = NoneArg
    /\ ebResult.kind = "raise"

(***************************************************************************)
(* Properties that relate the two representations (filter and selection)   *)
(***************************************************************************)
\* the call just made returned a failure result: success=False from
\* apply_filter_to_selection, or False from clear_filter
ReturnedFailure ==
    \/ op = "apply_filter_to_selection" /\ ret.kind = "tuple" /\ ~ret.success
    \/ op = "clear_filter" /\ ret.kind = "bool" /\ ~ret.success

\* C21: a failure result implies no mutation: whenever
\* apply_filter_to_selection returns success=False or clear_filter returns
\* False, the subset filter is what it was before the call, also when the
\* failure comes from a step that follows setSubsetString in the try block.
C21_FailureImpliesNoMutation == ReturnedFailure => subset = preSubset

\* every feature of the layer has a key, and no two features share one
KeysNonNullAndUnique ==
    /\ \A f \in Features : ~IsNullValue(pk[f])
    /\ \A f, g \in Features : pk[f] = pk[g] => f = g

\* the features whose key is one of the non-null keys of the features in sel
WithKeysOf(sel) ==
    {f \in Features : ~IsNullValue(pk[f]) /\ \E g \in sel : pk[g] = pk[f]}

\* apply_filter_to_selection has just run, with no host call raising, on a
\* layer that has a primary key, no edit session and no filter, and
\* clear_filter_and_select_features runs next, again with no call raising
RoundTrip ==
    /\ op = "apply_filter_to_selection" /\ layerArg /\ faulted = {}
    /\ hasPK /\ ~editable /\ preSubset = <<>>
    /\ op' = "clear_filter_and_select_features" /\ layerArg' /\ faulted' = {}

\* C22: on a layer with no edit session and no filter, apply_filter_to_selection
\* followed by clear_filter_and_select_features ends with no filter; when the
\* keys are non-null and unique the selection is the one before the first call
\* and both calls report the same count; otherwise the selection is the set of
\* all features whose key is among the non-null selected keys.
C22_RoundTrip ==
    [][RoundTrip =>
         IF KeysNonNullAndUnique
         THEN /\ subset' = <<>>
              /\ selection' = preSelection
              /\ ret'.count = ret.count
         ELSE selection' = WithKeysOf(preSelection)]_vars

(***************************************************************************)
(* SelectMatchingFeaturesDockWidget (gui/...dockwidget.py): the operator   *)
(* radios, the Advanced group box, and save_settings                       *)
(***************************************************************************)
\* what the widgets read by save_settings hold when it runs: the layer combo
\* (None when empty), the field combo, the mode radio, the check box
SaveInputs ==
    {[current_layer |-> NoneArg, current_field |-> "",
      hide |-> FALSE, select_filtered |-> FALSE],
     [current_layer |-> "layer_1", current_field |-> "name",
      hide |-> TRUE, select_filtered |-> TRUE]}

\* the operator radios, and none checked
RadioStates == {"=", "!=", "<", ">", "<=", ">=", ""}

\* the widget's get_operator looking at the radios only
widget_get_operator_radio_only(collapsed, radio) ==
    IF radio = "" THEN "=" ELSE radio

\* SelectMatchingFeaturesDockWidget.get_operator()
widget_get_operator(collapsed, radio) ==
    IF collapsed THEN "="
    ELSE IF radio = "=" THEN "="
    ELSE IF radio = "!=" THEN "!="
    ELSE IF radio = "<" THEN "<"
    ELSE IF radio = ">" THEN ">"
    ELSE IF radio = "<=" THEN "<="
    ELSE IF radio = ">=" THEN ">="
    ELSE "="

\* SelectMatchingFeaturesDockWidget.save_settings()
save_settings(st, collapsed, radio, in) ==
    LET s1 == IF ~PyFalsy(in.current_layer)
              THEN set_current_layer(st, in.current_layer) ELSE st
        s2 == IF ~PyFalsy(in.current_field)
              THEN set_current_field(s1, in.current_field) ELSE s1
        s3 == set_hide_non_matching(s2, in.hide)
        s4 == set_select_filtered(s3, in.select_filtered)
    IN  set_operator(s4, widget_get_operator(collapsed, radio))

\* the stores that one call of a SettingsManager method can leave
AfterSettingsManagerCall(st) ==
    {set_current_layer(st, a) : a \in {"", "layer_1"}}
    \cup {set_current_field(st, a) : a \in {"", "name"}}
    \cup {set_hide_non_matching(st, a) : a \in BOOLEAN}
    \cup {set_select_filtered(st, a) : a \in BOOLEAN}
    \cup {set_operator(st, a) : a \in OperatorArgs}
    \cup {set_advanced_collapsed(st, a) : a \in BOOLEAN}
    \cup {reset_all(st)}

\* a fresh settings store and a dock widget as setupUi left it; the store
\* before a call is not recorded here
DWInit ==
    /\ store = Empty /\ stOp = "init" /\ stArg = "" /\ preStore = Empty
    /\ grpAdvancedCollapsed \in BOOLEAN
    /\ radioOp \in RadioStates
    /\ SMIdle /\ HMIdle /\ EBIdle

\* one handler of the dock widget
DWRan(name, arg, st, collapsed, radio) ==
    /\ stOp' = name
    /\ stArg' = arg
    /\ store' = st
    /\ grpAdvancedCollapsed' = collapsed
    /\ radioOp' = radio
    /\ UNCHANGED <<preStore, smVars, hmVars, ebVars>>

\* any SettingsManager method called by the plugin
SettingsManagerCall ==
    \E st \in AfterSettingsManagerCall(store) :
        DWRan("settings_manager", "", st, grpAdvancedCollapsed, radioOp)

\* save_settings called from a combo or mode signal
SaveSettings ==
    \E in \in SaveInputs :
        DWRan("save_settings", "", save_settings(store, grpAdvancedCollapsed, radioOp, in),
              grpAdvancedCollapsed, radioOp)

\* an operator radio gets checked (by the user or by _set_operator_radio);
\* its toggled signal runs on_operator_changed
OnOperatorChanged ==
    \E r \in RadioStates \ {"", radioOp}, in \in SaveInputs :
        DWRan("on_operator_changed", r,
              save_settings(store, grpAdvancedCollapsed, r, in),
              grpAdvancedCollapsed, r)

\* the Advanced group box is collapsed or expanded; collapsedStateChanged
\* runs on_advanced_collapsed(collapsed)
OnAdvancedCollapsed ==
    \E in \in SaveInputs :
        LET collapsed == ~grpAdvancedCollapsed
        IN  IF collapsed
            THEN DWRan("on_advanced_collapsed", "",
                       save_settings(store, collapsed, "=", in), collapsed, "=")
            ELSE DWRan("on_advanced_collapsed", "", store, collapsed, radioOp)

DWNext ==
    \/ SettingsManagerCall
    \/ SaveSettings
    \/ OnOperatorChanged
    \/ OnAdvancedCollapsed

SpecDW == DWInit /\ [][DWNext]_vars

\* the handler that just ran has called save_settings
SettingsSaved ==
    \/ stOp \in {"save_settings", "on_operator_changed"}
    \/ stOp = "on_advanced_collapsed" /\ grpAdvancedCollapsed

\* C23: starting from a fresh store, after any sequence of SettingsManager
\* calls and save_settings calls of the dock widget, get_operator returns one
\* of the six symbols; and every save_settings made while the Advanced
\* section is collapsed stores "=", whatever operator radio is checked.
C23_StoredOperatorValid ==
    /\ get_operator(store) \in SixSymbols
    /\ (SettingsSaved /\ grpAdvancedCollapsed) =>
          KEY_OPERATOR \in DOMAIN store /\ store[KEY_OPERATOR] = "="

\* save_settings while collapsed with the < radio checked
C23_Witness ==
    /\ stOp = "save_settings" /\ grpAdvancedCollapsed /\ radioOp = "<"
    /\ KEY_OPERATOR \in DOMAIN store /\ store[KEY_OPERATOR] = "="
    /\ get_current_layer(store) = "layer_1"

=============================================================================
